---- MODULE Spec2Model ----
(***************************************************************************)
(* A model of the tech-tree editor: the TechTree data model (validate,     *)
(* clone, updateRefsToId, deleteRefsToId, subgraph, findRootNodeOf), the   *)
(* NodeViewer edit handlers and the TechTreeViewer undo/redo history.      *)
(*                                                                         *)
(* JavaScript arrays have identity: two node objects may hold the same     *)
(* array.  The model keeps every dependsOn / dependedOnBy array in `heap`  *)
(* and a node holds the address of its arrays, so that an in-place write   *)
(* through one node is seen through every node that shares the array.      *)
(***************************************************************************)
EXTENDS Integers, Sequences, FiniteSets, TLC

\* ---------------------------------------------------------------- bounds
MaxNodes == 2
MaxHistory == 2
MaxLongHistory == 3
MaxDeps == 2
MaxPureNodes == 3
MaxUINodes == 3
MaxEditNodes == 3
MaxEditEdges == 3
MaxCalls == 16

\* ------------------------------------------------------------ vocabulary
null == "null"

InitIds == <<"a", "b">>
PureIds == <<"a", "b", "c", "d">>
Titles == {"A", "B"}
Descriptions == {"", "d"}
\* an id that names no node of any tree
AbsentId == "x"

\* ------------------------------------------------------------- AppInner
\* The URL parameters tree and url of window.location
NoParams == [tree |-> null, url |-> null]

\* AppInner as it is first rendered: no tree, no error, not loading; no fetch
\* in flight.  asked and last are history fields: what the last URL change
\* or load asked for and how its fetch ended, and the step taken last with
\* the tree before it and after its synchronous part.
AppStart ==
  [tree |-> null, error |-> null, loading |-> FALSE, params |-> NoParams,
   fetches |-> <<>>, asked |-> [what |-> null, outcome |-> "none"],
   last |-> [op |-> "none", outcome |-> "none", before |-> null, after |-> null]]

\* ------------------------------------------------------------- bugCache
BugNumbers == {1, 2}

\* No entry of the cache
NoEntry == [held |-> FALSE, success |-> FALSE, timestamp |-> 0]

\* new BugStatusCache() at time 0; no call of getCachedBugStatus in flight.
\* last is a history field: the step taken last.
BugsStart ==
  [cache |-> [b \in BugNumbers |-> NoEntry], now |-> 0, ticks |-> 0,
   calls |-> <<>>,
   last |-> [op |-> "none", bug |-> 0, fetched |-> FALSE, success |-> FALSE,
             expired |-> FALSE]]

\* ------------------------------------------------------------- sequences
Range(s) == {s[i] : i \in DOMAIN s}

RemoveAt(s, i) == [k \in 1..(Len(s) - 1) |-> IF k < i THEN s[k] ELSE s[k + 1]]

RECURSIVE Flatten(_)
Flatten(ss) == IF ss = <<>> THEN <<>> ELSE Head(ss) \o Flatten(Tail(ss))

\* ------------------------------------------------------------ tree model
\* TechNode: the two array fields hold heap addresses.
TechNode(id, title, description, dependsOn, dependedOnBy) ==
  [id |-> id, title |-> title, description |-> description,
   dependsOn |-> dependsOn, dependedOnBy |-> dependedOnBy]

NodeIds(t) == {t[k].id : k \in DOMAIN t}

\* tree.nodes.find((x) => x.id === id): has such a node
HasNode(t, id) == \E k \in DOMAIN t : t[k].id = id

\* tree.nodes.findIndex((x) => x.id === id), 0 when there is none (JS: -1)
FindIndex(t, id) ==
  IF HasNode(t, id) THEN CHOOSE k \in DOMAIN t :
                           t[k].id = id /\ \A j \in 1..(k - 1) : t[j].id # id
  ELSE 0

\* A tree read through the heap: the arrays' contents in place of addresses.
NodeView(n, h) ==
  [id |-> n.id, title |-> n.title, description |-> n.description,
   dependsOn |-> h[n.dependsOn], dependedOnBy |-> h[n.dependedOnBy]]

TreeView(t, h) == [k \in DOMAIN t |-> NodeView(t[k], h)]

\* clone(tree): fresh node objects and fresh arrays with the same contents.
clone(t, h) ==
  LET base == Len(h)
      fresh == [i \in 1..(2 * Len(t)) |->
                  IF i % 2 = 1 THEN h[t[(i + 1) \div 2].dependsOn]
                  ELSE h[t[i \div 2].dependedOnBy]]
  IN [tree |-> [k \in DOMAIN t |->
                  TechNode(t[k].id, t[k].title, t[k].description,
                           base + 2 * k - 1, base + 2 * k)],
      heap |-> h \o fresh]

\* ------------------------------------------------------------ canonicalize
\* Two spellings of e with an acute accent, canonically equivalent in
\* Unicode: the one code point U+00E9, and e followed by the combining U+0301
Enfc == "U+00E9"
Enfd == "e U+0301"

\* The UTF-16 code units of the ids of the model
CodeUnits(s) ==
  CASE s = "B" -> <<66>>
    [] s = "a" -> <<97>>
    [] s = "b" -> <<98>>
    [] s = "c" -> <<99>>
    [] s = "d" -> <<100>>
    [] s = Enfd -> <<101, 769>>
    [] s = Enfc -> <<233>>
    [] OTHER -> <<120>>

\* The collation key of an id: its letters, then accents, then case.
\* Canonically equivalent strings have one key.
CollationKey(s) ==
  CASE s = "B" -> <<2, 0, 1>>
    [] s = "a" -> <<1, 0, 0>>
    [] s = "b" -> <<2, 0, 0>>
    [] s = "c" -> <<3, 0, 0>>
    [] s = "d" -> <<4, 0, 0>>
    [] s = Enfd -> <<5, 1, 0>>
    [] s = Enfc -> <<5, 1, 0>>
    [] OTHER -> <<24, 0, 0>>

RECURSIVE LexCompare(_, _)
\* -1, 0 or 1: the order of two sequences of numbers, first difference first
LexCompare(u, v) ==
  IF u = <<>> THEN (IF v = <<>> THEN 0 ELSE -1)
  ELSE IF v = <<>> THEN 1
  ELSE IF Head(u) < Head(v) THEN -1
  ELSE IF Head(u) > Head(v) THEN 1
  ELSE LexCompare(Tail(u), Tail(v))

\* a.localeCompare(b): 0 for canonically equivalent strings
localeCompare(a, b) == LexCompare(CollationKey(a), CollationKey(b))

\* The comparison of Array.prototype.sort() without an argument: by code units
defaultCompare(a, b) == LexCompare(CodeUnits(a), CodeUnits(b))

\* Array.prototype.sort(compare): stable, entries that compare 0 keep their
\* order.  compared[j][i] is the result of compare(s[j], s[i]).
sort(s, compared) ==
  LET pos(i) == 1 + Cardinality({j \in DOMAIN s :
                                   \/ compared[j][i] < 0
                                   \/ compared[j][i] = 0 /\ j < i})
  IN [p \in DOMAIN s |-> s[CHOOSE i \in DOMAIN s : pos(i) = p]]

\* canonicalize(tree): a clone with the nodes sorted by id.localeCompare and
\* each of its arrays sorted in place
canonicalize(t, h) ==
  LET c == clone(t, h)
  IN [tree |-> sort(c.tree, [j \in DOMAIN c.tree |-> [i \in DOMAIN c.tree |->
                              localeCompare(c.tree[j].id, c.tree[i].id)]]),
      heap |-> [a \in DOMAIN c.heap |->
                  IF a > Len(h)
                  THEN sort(c.heap[a], [j \in DOMAIN c.heap[a] |->
                              [i \in DOMAIN c.heap[a] |->
                                 defaultCompare(c.heap[a][j], c.heap[a][i])]])
                  ELSE c.heap[a]]]

\* (mutant) every entry is rewritten, not only those equal to previousId
updateRefsToId_EveryEntry(t, h, previousId, newId) ==
  LET touched == {t[k].dependsOn : k \in DOMAIN t}
                   \cup {t[k].dependedOnBy : k \in DOMAIN t}
      rewrite(arr) == [i \in DOMAIN arr |-> newId]
  IN [a \in DOMAIN h |-> IF a \in touched THEN rewrite(h[a]) ELSE h[a]]

\* updateRefsToId: rewrites the entries of the arrays of tree's nodes in place.
updateRefsToId(t, h, previousId, newId) ==
  LET touched == {t[k].dependsOn : k \in DOMAIN t}
                   \cup {t[k].dependedOnBy : k \in DOMAIN t}
      rewrite(arr) == [i \in DOMAIN arr |->
                         IF arr[i] = previousId THEN newId ELSE arr[i]]
  IN [a \in DOMAIN h |-> IF a \in touched THEN rewrite(h[a]) ELSE h[a]]

\* (mutant) only the dependedOnBy arrays are filtered
deleteRefsToId_DependedOnByOnly(t, h, id) ==
  LET base == Len(h)
      fresh == [i \in 1..(2 * Len(t)) |->
                  IF i % 2 = 1
                  THEN h[t[(i + 1) \div 2].dependsOn]
                  ELSE SelectSeq(h[t[i \div 2].dependedOnBy], LAMBDA d : d # id)]
  IN [tree |-> [k \in DOMAIN t |->
                  [t[k] EXCEPT !.dependsOn = base + 2 * k - 1,
                               !.dependedOnBy = base + 2 * k]],
      heap |-> h \o fresh]

\* deleteRefsToId: every node of tree gets two new, filtered arrays.
deleteRefsToId(t, h, id) ==
  LET base == Len(h)
      fresh == [i \in 1..(2 * Len(t)) |->
                  IF i % 2 = 1
                  THEN SelectSeq(h[t[(i + 1) \div 2].dependsOn], LAMBDA d : d # id)
                  ELSE SelectSeq(h[t[i \div 2].dependedOnBy], LAMBDA d : d # id)]
  IN [tree |-> [k \in DOMAIN t |->
                  [t[k] EXCEPT !.dependsOn = base + 2 * k - 1,
                               !.dependedOnBy = base + 2 * k]],
      heap |-> h \o fresh]

\* --------------------------------------------------------------- validate
BlankIds == {"", " "}

ErrEmptyId == "Node must have a non-empty string id"
ErrDuplicate == "Duplicate node id"
ErrDangling == "Node depends on non-existent node"
ErrExists == "A node with the ID already exists"
ErrRootMissing == "Root node does not exist in the tree"

\* (mutant) trim that removes nothing
trim_Nothing(s) == s

\* String.prototype.trim on the ids of the model: white space at both ends
\* removed
trim(s) ==
  IF s \in BlankIds THEN "" ELSE IF s = " a" THEN "a" ELSE s

\* First pass of validate at node i, for nodes of the right types: the first
\* check that fails there, or null.
FirstPassError(t, i) ==
  IF trim(t[i].id) = "" THEN ErrEmptyId
  ELSE IF \E j \in 1..(i - 1) : t[j].id = t[i].id THEN ErrDuplicate
  ELSE null

\* Second pass of validate at node i.
SecondPassError(t, h, i) ==
  IF \E d \in Range(h[t[i].dependsOn]) : d \notin NodeIds(t) THEN ErrDangling
  ELSE null

\* Final pass of validate: the dependedOnBy array computed for the node at k.
\* Nodes are visited in order, and each entry of a node's dependsOn pushes the
\* node's id onto the first node that has the entry as its id.
ComputedDependedOnBy(t, h, k) ==
  Flatten([n \in DOMAIN t |->
             LET deps == h[t[n].dependsOn]
             IN [i \in 1..Len(SelectSeq(deps, LAMBDA d : FindIndex(t, d) = k))
                   |-> t[n].id]])

\* validate(tree): ok with the tree (its nodes given new dependedOnBy arrays),
\* or the message of the first error.  Nothing is written before the final pass.
validate(t, h) ==
  LET bad1 == {i \in DOMAIN t : FirstPassError(t, i) # null}
      bad2 == {i \in DOMAIN t : SecondPassError(t, h, i) # null}
      first(S) == CHOOSE i \in S : \A j \in S : i <= j
      base == Len(h)
  IN IF bad1 # {}
     THEN [ok |-> FALSE, error |-> FirstPassError(t, first(bad1)),
           tree |-> t, heap |-> h]
     ELSE IF bad2 # {}
     THEN [ok |-> FALSE, error |-> SecondPassError(t, h, first(bad2)),
           tree |-> t, heap |-> h]
     ELSE [ok |-> TRUE, error |-> null,
           tree |-> [k \in DOMAIN t |-> [t[k] EXCEPT !.dependedOnBy = base + k]],
           heap |-> h \o [k \in DOMAIN t |-> ComputedDependedOnBy(t, h, k)]]

\* ------------------------------------------------ validate on any value
\* A JavaScript value as JSON.parse returns it: its type ("array" and "null"
\* told apart from "object"), the characters of a string, the items of an
\* array, and for a node object the properties validate reads.
ErrNotObject == "TechTree must be an object"
ErrNodesNotArray == "TechTree.nodes must be an array"
ErrNodeNotObject == "Node must be an object"
ErrTitle == "Node must have a string title"
ErrDescription == "Node must have a string description"
ErrDependsOnArray == "Node dependsOn must be an array"
ErrDependsOnStrings == "Node dependsOn must contain only strings"

Str(s) == [type |-> "string", str |-> s]
Other(type) == [type |-> type, str |-> ""]
Arr(items) == [type |-> "array", items |-> items]
NotArr(type) == [type |-> type, items |-> <<>>]
JsonNode(type, id, title, description, dependsOn) ==
  [type |-> type, id |-> id, title |-> title, description |-> description,
   dependsOn |-> dependsOn]
JsonTree(type, nodes) == [type |-> type, nodes |-> nodes]

\* !v || typeof v !== "object" is false: typeof is "object" for arrays too,
\* and null is falsy
IsObject(v) == v.type \in {"object", "array"}

\* v.id, v.title, v.description of a node: undefined unless v is a plain object
Prop(v, value) == IF v.type = "object" THEN value ELSE Other("undefined")
\* v.dependsOn, v.nodes: undefined unless v is a plain object
ArrProp(v, value) == IF v.type = "object" THEN value ELSE NotArr("undefined")

\* (mutant) the first pass with the types of every field checked before the
\* id is looked up among the ids seen
RawFirstPassError_FieldsFirst(nodes, i) ==
  LET node == nodes[i]
      ids == [k \in DOMAIN nodes |-> [id |-> Prop(nodes[k], nodes[k].id).str]]
      deps == ArrProp(node, node.dependsOn)
  IN IF ~IsObject(node) THEN ErrNodeNotObject
     ELSE IF Prop(node, node.id).type # "string" THEN ErrEmptyId
     ELSE IF trim(ids[i].id) = "" THEN ErrEmptyId
     ELSE IF Prop(node, node.title).type # "string" THEN ErrTitle
     ELSE IF Prop(node, node.description).type # "string" THEN ErrDescription
     ELSE IF deps.type # "array" THEN ErrDependsOnArray
     ELSE IF \E d \in Range(deps.items) : d.type # "string" THEN ErrDependsOnStrings
     ELSE FirstPassError(ids, i)

\* First pass of validate at node i of candidate.nodes, in the order of the
\* checks: the first one that fails there, or null.
RawFirstPassError(nodes, i) ==
  LET node == nodes[i]
      ids == [k \in DOMAIN nodes |-> [id |-> Prop(nodes[k], nodes[k].id).str]]
      deps == ArrProp(node, node.dependsOn)
  IN IF ~IsObject(node) THEN ErrNodeNotObject
     ELSE IF Prop(node, node.id).type # "string" THEN ErrEmptyId
     ELSE IF FirstPassError(ids, i) # null THEN FirstPassError(ids, i)
     ELSE IF Prop(node, node.title).type # "string" THEN ErrTitle
     ELSE IF Prop(node, node.description).type # "string" THEN ErrDescription
     ELSE IF deps.type # "array" THEN ErrDependsOnArray
     ELSE IF \E d \in Range(deps.items) : d.type # "string" THEN ErrDependsOnStrings
     ELSE null

\* The nodes that passed the first pass, as a tree: the node at k holds its
\* dependsOn array at address k and no dependedOnBy array yet.
TypedNodes(nodes) ==
  [tree |-> [k \in DOMAIN nodes |->
               TechNode(nodes[k].id.str, nodes[k].title.str,
                        nodes[k].description.str, k, 0)],
   heap |-> [k \in DOMAIN nodes |->
               [j \in DOMAIN nodes[k].dependsOn.items |->
                  nodes[k].dependsOn.items[j].str]]]

\* validate(tree) for any value: the type checks of the first pass, then the
\* passes of validate above on the nodes.
validateInput(input) ==
  LET failed(message) == [ok |-> FALSE, error |-> message, tree |-> <<>>,
                          heap |-> <<>>]
      candidateNodes == ArrProp(input, input.nodes)
      nodes == candidateNodes.items
      bad1 == {i \in DOMAIN nodes : RawFirstPassError(nodes, i) # null}
      first(S) == CHOOSE i \in S : \A j \in S : i <= j
  IN IF ~IsObject(input) THEN failed(ErrNotObject)
     ELSE IF candidateNodes.type # "array" THEN failed(ErrNodesNotArray)
     ELSE IF bad1 # {} THEN failed(RawFirstPassError(nodes, first(bad1)))
     ELSE validate(TypedNodes(nodes).tree, TypedNodes(nodes).heap)

\* ----------------------------------------------------------------- queries
\* nodeMap.get(id): Map.set in node order, so the last node with the id wins.
NodeMapGet(t, id) ==
  t[CHOOSE k \in DOMAIN t :
      t[k].id = id /\ \A j \in (k + 1)..Len(t) : t[j].id # id]

\* The traversals carry, next to what the code keeps, a record of their own
\* work: expanded lists the ids whose node was found and whose edges were
\* followed, in order, and calls counts the calls (or loop iterations) made.
\* A traversal stops where calls reaches MaxCalls.
Started(S) == [ids |-> S, expanded |-> <<>>, calls |-> 0]

Called(st) == [st EXCEPT !.calls = @ + 1]

Expanding(st, id) ==
  [st EXCEPT !.ids = @ \cup {id}, !.expanded = Append(@, id), !.calls = @ + 1]

RECURSIVE collectDependencies_NoMemo(_, _, _, _)
RECURSIVE collectEach_NoMemo(_, _, _, _)
\* (mutant) collectDependencies without the includedNodes test
collectDependencies_NoMemo(t, h, nodeId, st) ==
  IF st.calls >= MaxCalls THEN st
  ELSE IF ~HasNode(t, nodeId) THEN Called(st)
  ELSE collectEach_NoMemo(t, h, h[NodeMapGet(t, nodeId).dependsOn],
                          Expanding(st, nodeId))

collectEach_NoMemo(t, h, deps, st) ==
  IF deps = <<>> THEN st
  ELSE collectEach_NoMemo(t, h, Tail(deps),
                          collectDependencies_NoMemo(t, h, Head(deps), st))

RECURSIVE collectDependencies(_, _, _, _)
RECURSIVE collectEach(_, _, _, _)
\* subgraph's collectDependencies(nodeId); st.ids is includedNodes.
collectDependencies(t, h, nodeId, st) ==
  IF st.calls >= MaxCalls THEN st
  ELSE IF nodeId \in st.ids THEN Called(st)
  ELSE IF ~HasNode(t, nodeId) THEN Called(st)
  ELSE collectEach(t, h, h[NodeMapGet(t, nodeId).dependsOn],
                   Expanding(st, nodeId))

\* the for loop over node.dependsOn inside collectDependencies
collectEach(t, h, deps, st) ==
  IF deps = <<>> THEN st
  ELSE collectEach(t, h, Tail(deps),
                   collectDependencies(t, h, Head(deps), st))

\* subgraph(tree, root): the ids of the nodes kept (root must be in the tree).
subgraphIds(t, h, root) == collectDependencies(t, h, root, Started({})).ids

\* (mutant) only the root and the nodes it depends on directly are kept
subgraph_DirectOnly(t, h, root) ==
  IF ~HasNode(t, root)
  THEN [ok |-> FALSE, error |-> ErrRootMissing, nodes |-> <<>>,
        expanded |-> <<>>, calls |-> 0]
  ELSE LET direct == {root} \cup Range(h[NodeMapGet(t, root).dependsOn])
       IN [ok |-> TRUE, error |-> null,
           nodes |-> SelectSeq(t, LAMBDA n : n.id \in direct),
           expanded |-> <<root>>, calls |-> 1]

\* subgraph(tree, root): throws when root is not in the tree, else returns the
\* kept nodes in the tree's order.
subgraph(t, h, root) ==
  IF ~HasNode(t, root)
  THEN [ok |-> FALSE, error |-> ErrRootMissing, nodes |-> <<>>,
        expanded |-> <<>>, calls |-> 0]
  ELSE LET st == collectDependencies(t, h, root, Started({}))
       IN [ok |-> TRUE, error |-> null,
           nodes |-> SelectSeq(t, LAMBDA n : n.id \in st.ids),
           expanded |-> st.expanded, calls |-> st.calls]

RECURSIVE findRootLoop(_, _, _, _)
\* the while loop of findRootNodeOf over stack; st.ids is visited
findRootLoop(t, h, stack, st) ==
  IF stack = <<>> \/ st.calls >= MaxCalls
  THEN [value |-> null, expanded |-> st.expanded, calls |-> st.calls]
  ELSE LET currentId == stack[Len(stack)]
           rest == SubSeq(stack, 1, Len(stack) - 1)
       IN IF currentId \in st.ids THEN findRootLoop(t, h, rest, Called(st))
          ELSE IF ~HasNode(t, currentId)
               THEN findRootLoop(t, h, rest,
                                 [Called(st) EXCEPT !.ids = @ \cup {currentId}])
          ELSE LET by == h[t[FindIndex(t, currentId)].dependedOnBy]
                   seen == Expanding(st, currentId)
               IN IF by = <<>>
                  THEN [value |-> currentId, expanded |-> seen.expanded,
                        calls |-> seen.calls]
                  ELSE findRootLoop(t, h,
                         rest \o SelectSeq(by, LAMBDA d : d \notin seen.ids),
                         seen)

\* (mutant) the node asked about is taken for its own root
findRootNodeOf_Self(t, h, node) ==
  [value |-> IF HasNode(t, node) THEN node ELSE null,
   expanded |-> <<>>, calls |-> 1]

\* findRootNodeOf(tree, node), with the record of the traversal
findRootNodeOf(t, h, node) == findRootLoop(t, h, <<node>>, Started({}))

RECURSIVE hasPath(_, _, _, _, _)
RECURSIVE somePath(_, _, _, _, _)
\* wouldCreateCycle's hasPath; st.ids is `visited`, shared by the whole
\* search, so the state is returned along with the answer.
hasPath(t, h, currentId, targetId, st) ==
  IF st.calls >= MaxCalls THEN [found |-> FALSE, st |-> st]
  ELSE IF currentId = targetId THEN [found |-> TRUE, st |-> Called(st)]
  ELSE IF currentId \in st.ids THEN [found |-> FALSE, st |-> Called(st)]
  ELSE IF ~HasNode(t, currentId)
       THEN [found |-> FALSE,
             st |-> [Called(st) EXCEPT !.ids = @ \cup {currentId}]]
  ELSE somePath(t, h, h[t[FindIndex(t, currentId)].dependsOn], targetId,
                Expanding(st, currentId))

\* currentNode.dependsOn.some(...): stops at the first dependency with a path
somePath(t, h, deps, targetId, st) ==
  IF deps = <<>> THEN [found |-> FALSE, st |-> st]
  ELSE LET r == hasPath(t, h, Head(deps), targetId, st)
       IN IF r.found THEN r ELSE somePath(t, h, Tail(deps), targetId, r.st)

\* (mutant) the search runs from fromId towards toId
wouldCreateCycle_Swapped(t, h, fromId, toId) ==
  hasPath(t, h, fromId, toId, Started({})).found

\* wouldCreateCycle(tree, fromId, toId), with the record of the traversal
cycleSearch(t, h, fromId, toId) == hasPath(t, h, toId, fromId, Started({}))

wouldCreateCycle(t, h, fromId, toId) == cycleSearch(t, h, fromId, toId).found

\* (mutant) nodes that would close a cycle are offered too
availableNodes_NoCycleCheck(t, h, nodeId) ==
  LET node == t[FindIndex(t, nodeId)]
  IN SelectSeq(t, LAMBDA n :
       n.id # node.id /\ n.id \notin Range(h[node.dependsOn]))

\* NodeViewer's availableNodes for the node with id nodeId
availableNodes(t, h, nodeId) ==
  LET node == t[FindIndex(t, nodeId)]
  IN SelectSeq(t, LAMBDA n :
       /\ n.id # node.id
       /\ n.id \notin Range(h[node.dependsOn])
       /\ ~wouldCreateCycle(t, h, node.id, n.id))

\* ------------------------------------------------------ identifier policy
\* The slug of a title: lower case, runs of other characters made one dash.
Slug(title) ==
  CASE title = "A" -> "a"
    [] title = "B" -> "b"
    [] title = "C" -> "c"
    [] title = "D" -> "d"
    [] title = "New Node" -> "new-node"
    [] OTHER -> "node"

\* generateId(title) as NodeViewer calls it: the slug of the title
generateIdOfTitle(title) == Slug(title)

\* generateId(tree, title): the slug, with a numeric suffix while it collides
generateId(t, title) ==
  LET candidates == <<"new-node", "new-node-2", "new-node-3">>
      free == {i \in DOMAIN candidates : candidates[i] \notin NodeIds(t)}
  IN IF Slug(title) \notin NodeIds(t) THEN Slug(title)
     ELSE candidates[CHOOSE i \in free : \A j \in free : i <= j]

generateTitle(t, blocking) == "New Node"

\* ------------------------------------------------------- TechTreeViewer
VARIABLES
  treeHistory,     \* useState<TechTree[]>: the snapshots, oldest first
  heap,            \* the arrays the snapshots' nodes hold, by address
  treeIndex,       \* useState<number>: 0-based index of the current snapshot
  lastUpdateKind,  \* useState<string>
  rootNodeId,      \* useState<TechNodeId | null>
  selectedNodeId,  \* useState<TechNodeId | null>
  error,           \* useState<string | null>
  last,            \* history variable: the handler that ran last and its outcome
  afterUndo,       \* history variable: Undo / Undo All ran and no updateNode
                   \* has been accepted since
  result,          \* the last value a query returned, with its arguments
  app,             \* AppInner: its state, the URL parameters and the fetches
                   \* in flight
  bugs             \* bugCache, the clock and the fetches in flight

vars == <<treeHistory, heap, treeIndex, lastUpdateKind, rootNodeId,
          selectedNodeId, error, last, afterUndo, result, app, bugs>>

\* let tree = treeHistory[treeIndex]
tree == treeHistory[treeIndex + 1]

\* (mutant) the render uses the stored id as it is
Effective_Stored(t, id) == id

\* The render's local rootNodeId / selectedNodeId: null unless in the tree.
Effective(t, id) == IF HasNode(t, id) THEN id ELSE null

canUndo == treeIndex > 0
canRedo == treeIndex < Len(treeHistory) - 1

HistoryView == [k \in DOMAIN treeHistory |-> TreeView(treeHistory[k], heap)]

RECURSIVE Distinct(_, _)
\* the entries of s that are not in `seen`, each once, in order of appearance
Distinct(s, seen) ==
  IF s = <<>> THEN <<>>
  ELSE IF Head(s) \in seen THEN Distinct(Tail(s), seen)
       ELSE <<Head(s)>> \o Distinct(Tail(s), seen \cup {Head(s)})

\* The arrays a snapshot of the history still holds, renumbered in order of
\* first appearance; the arrays no snapshot holds are garbage.
Compact(hist, h) ==
  LET refs == Flatten([k \in DOMAIN hist |->
                 Flatten([n \in DOMAIN hist[k] |->
                    <<hist[k][n].dependsOn, hist[k][n].dependedOnBy>>])])
      order == Distinct(refs, {})
      newAddr == [a \in Range(order) |-> CHOOSE i \in DOMAIN order : order[i] = a]
  IN [hist |-> [k \in DOMAIN hist |-> [n \in DOMAIN hist[k] |->
                  [hist[k][n] EXCEPT
                     !.dependsOn = newAddr[hist[k][n].dependsOn],
                     !.dependedOnBy = newAddr[hist[k][n].dependedOnBy]]]],
      heap |-> [i \in DOMAIN order |-> h[order[i]]]]

\* One render of TechTreeViewer: the subtree memo resets a root that is not in
\* the tree, and the selection effect moves the root to a root of the selected
\* node when the selected node is outside the subtree.
RenderStep(t, h, root, selected) ==
  IF root # null /\ ~HasNode(t, root)
  THEN [root |-> null, selected |-> null]
  ELSE LET s == Effective(t, selected)
       IN IF root # null /\ s # null /\ s \notin subgraphIds(t, h, root)
          THEN [root |-> findRootNodeOf(t, h, s).value, selected |-> selected]
          ELSE [root |-> root, selected |-> selected]

\* Renders until the state no longer changes (two renders reach that).
Settle(t, h, root, selected) ==
  LET once == RenderStep(t, h, root, selected)
  IN RenderStep(t, h, once.root, once.selected)

\* The state updates of a handler, followed by the re-render.
Commit(hist, h, idx, kind, root, selected, err, lst, au) ==
  LET st == Settle(hist[idx + 1], h, root, selected)
      c == Compact(hist, h)
  IN /\ treeHistory' = c.hist
     /\ heap' = c.heap
     /\ treeIndex' = idx
     /\ lastUpdateKind' = kind
     /\ rootNodeId' = st.root
     /\ selectedNodeId' = st.selected
     /\ error' = err
     /\ last' = lst
     /\ afterUndo' = au
     /\ result' = result
     /\ UNCHANGED <<app, bugs>>

\* What `last` records of a handler.  dropped: how many snapshots it discarded
\* from the end of the history; arg: the id deleteNode was called with.
Outcome(op, outcome) ==
  [op |-> op, outcome |-> outcome, dropped |-> 0, arg |-> null]

Appended(op, hist, idx) ==
  [op |-> op, outcome |-> "appended", dropped |-> Len(hist) - (idx + 1),
   arg |-> null]

WithArg(lst, id) == [lst EXCEPT !.arg = id]

NoResult == [op |-> "none", fromId |-> null, toId |-> null, value |-> FALSE]

\* treeHistory.slice(0, treeIndex + 1)
HistoryPrefix(hist, idx) == SubSeq(hist, 1, idx + 1)

\* ------------------------------------------------------------------ Init
InitTitle(id) ==
  CASE id = "a" -> "A" [] id = "b" -> "B" [] id = "c" -> "C" [] OTHER -> "D"

\* The dependsOn lists of a loaded file; validate accepts self-dependencies
\* and cycles, so they are among them.
InitDeps(ids) == {<<>>} \cup {<<x>> : x \in ids}

\* props.tree: what validate returns for a file with nodes ids[1..n], the
\* node at k depending on deps[k].
LoadedTree(ids, n, deps) ==
  LET raw == [k \in 1..n |->
                TechNode(ids[k], InitTitle(ids[k]), "", 2 * k - 1, 2 * k)]
      rawHeap == [i \in 1..(2 * n) |->
                    IF i % 2 = 1 THEN deps[(i + 1) \div 2] ELSE <<>>]
      v == validate(raw, rawHeap)
  IN Compact(<<v.tree>>, v.heap)

\* The state of TechTreeViewer when it is mounted with props.tree.
ViewerMounted(loaded) ==
  /\ treeHistory = loaded.hist
  /\ heap = loaded.heap
  /\ treeIndex = 0
  /\ lastUpdateKind = ""
  /\ rootNodeId = null
  /\ selectedNodeId = null
  /\ error = null
  /\ last = Outcome("other", "none")
  /\ afterUndo = FALSE
  /\ result = NoResult

\* TechTreeViewer mounted with props.tree, and nothing else of the page in
\* motion
Mounted(loaded) ==
  /\ ViewerMounted(loaded)
  /\ app = AppStart
  /\ bugs = BugsStart

Init ==
  \E n \in 1..Len(InitIds) :
    \E deps \in [1..n -> InitDeps({InitIds[k] : k \in 1..n})] :
      Mounted(LoadedTree(InitIds, n, deps))

\* --------------------------------------------------------------- handlers
\* (mutant) the kind tag is cleared before the edit is known to be accepted
Reject_ClearsKind(h, message, op, arg) ==
  Commit(treeHistory, h, treeIndex, "", rootNodeId, selectedNodeId,
         message, WithArg(Outcome(op, "rejected"), arg), afterUndo)

\* A rejected edit: setError(message) and nothing else.  `h` is the heap as
\* the handler left it, in-place writes included; arg is for `last`.
Reject(h, message, op, arg) ==
  Commit(treeHistory, h, treeIndex, lastUpdateKind, rootNodeId, selectedNodeId,
         message, WithArg(Outcome(op, "rejected"), arg), afterUndo)

\* The snapshot sequence may grow only up to cap snapshots.
RoomFor(cap, updateKind, allowMerge) ==
  \/ treeIndex + 1 < cap
  \/ allowMerge /\ lastUpdateKind = updateKind

\* (mutant) updateNode makes no check of its own before it edits
idAlreadyExists_Unchecked(previousId, newNode) == FALSE

\* updateNode's pre-check: the new id is the id of another node of the tree
idAlreadyExists(previousId, newNode) ==
  previousId # newNode.id /\ HasNode(tree, newNode.id)

\* updateNode(previousId, newNode, updateKind, allowMerge); h is the heap with
\* the arrays the caller made for newNode, cap the bound on the history.
updateNode(cap, previousId, newNode, h, updateKind, allowMerge) ==
  LET s == Effective(tree, selectedNodeId)
      r == Effective(tree, rootNodeId)
  IN IF idAlreadyExists(previousId, newNode)
     THEN Reject(h, ErrExists, "updateNode", null)
     ELSE
       LET c == clone(tree, h)
           existingIndex == FindIndex(c.tree, previousId)
           placed == IF existingIndex = 0 THEN Append(c.tree, newNode)
                     ELSE [c.tree EXCEPT ![existingIndex] = newNode]
           h1 == updateRefsToId(placed, c.heap, previousId, newNode.id)
           v == validate(placed, h1)
           prefix == HistoryPrefix(treeHistory, treeIndex)
           merge == allowMerge /\ lastUpdateKind = updateKind
           newTreeHistory == IF merge
                             THEN [prefix EXCEPT ![Len(prefix)] = v.tree]
                             ELSE Append(prefix, v.tree)
           newTreeIndex == IF merge THEN Len(prefix) - 1 ELSE Len(prefix)
       IN IF ~v.ok THEN Reject(h1, v.error, "updateNode", null)
          ELSE RoomFor(cap, updateKind, allowMerge) /\
               Commit(newTreeHistory, v.heap, newTreeIndex, updateKind,
                      IF r = previousId THEN newNode.id ELSE rootNodeId,
                      IF s = previousId THEN newNode.id ELSE selectedNodeId,
                      error,
                      IF merge THEN Outcome("updateNode", "merged")
                      ELSE Appended("updateNode", treeHistory, treeIndex),
                      FALSE)

\* NodeViewer is rendered for the effective selected node.
ViewedNode == tree[FindIndex(tree, selectedNodeId)]

handleSetTitle(cap, title) ==
  /\ HasNode(tree, selectedNodeId)
  /\ updateNode(cap, ViewedNode.id,
                [ViewedNode EXCEPT !.id = generateIdOfTitle(title), !.title = title],
                heap, "set-title", TRUE)

handleSetDescription(cap, description) ==
  /\ HasNode(tree, selectedNodeId)
  /\ updateNode(cap, ViewedNode.id, [ViewedNode EXCEPT !.description = description],
                heap, "set-description", TRUE)

handleAddDependency(cap, dependencyId) ==
  /\ HasNode(tree, selectedNodeId)
  /\ Len(heap[ViewedNode.dependsOn]) < MaxDeps
  /\ updateNode(cap, ViewedNode.id,
                [ViewedNode EXCEPT !.dependsOn = Len(heap) + 1],
                Append(heap, Append(heap[ViewedNode.dependsOn], dependencyId)),
                "add-dependency", FALSE)

handleRemoveDependency(cap, dependencyId) ==
  /\ HasNode(tree, selectedNodeId)
  /\ dependencyId \in Range(heap[ViewedNode.dependsOn])
  /\ updateNode(cap, ViewedNode.id,
                [ViewedNode EXCEPT !.dependsOn = Len(heap) + 1],
                Append(heap, SelectSeq(heap[ViewedNode.dependsOn],
                                       LAMBDA d : d # dependencyId)),
                "remove-dependency", FALSE)

deleteNode(cap, id) ==
  /\ LET s == Effective(tree, selectedNodeId)
         r == Effective(tree, rootNodeId)
         c == clone(tree, heap)
         oldIndex == FindIndex(c.tree, id)
         \* splice(oldIndex, 1); splice(-1, 1) removes the last node
         spliced == IF c.tree = <<>> THEN c.tree
                    ELSE IF oldIndex = 0 THEN RemoveAt(c.tree, Len(c.tree))
                    ELSE RemoveAt(c.tree, oldIndex)
         d == deleteRefsToId(spliced, c.heap, id)
         v == validate(d.tree, d.heap)
         newTreeHistory == Append(HistoryPrefix(treeHistory, treeIndex), v.tree)
     IN IF ~v.ok THEN Reject(d.heap, v.error, "deleteNode", id)
        ELSE RoomFor(cap, "delete", FALSE) /\
             Commit(newTreeHistory, v.heap, Len(newTreeHistory) - 1, "delete",
                    IF r = id THEN null ELSE rootNodeId,
                    IF s = id THEN null ELSE selectedNodeId,
                    error,
                    WithArg(Appended("deleteNode", treeHistory, treeIndex), id),
                    afterUndo)

\* (mutant) the edge is added the other way round, from the new node
pushDependency_Reversed(t, h, blocking, id) ==
  IF blocking # null
  THEN [h EXCEPT ![t[FindIndex(t, id)].dependsOn] = Append(@, blocking)]
  ELSE h

\* newTree.nodes.find((x) => x.id === blocking)?.dependsOn.push(id)
pushDependency(t, h, blocking, id) ==
  IF blocking # null
  THEN [h EXCEPT ![t[FindIndex(t, blocking)].dependsOn] = Append(@, id)]
  ELSE h

addNode(cap) ==
     LET s == Effective(tree, selectedNodeId)
         r == Effective(tree, rootNodeId)
         blocking == IF s # null THEN s ELSE r
         title == generateTitle(tree, blocking)
         id == generateId(tree, title)
     IN IF HasNode(tree, id) THEN Reject(heap, ErrExists, "addNode", null)
        ELSE
          LET c == clone(tree, heap)
              base == Len(c.heap)
              newNode == TechNode(id, title, "", base + 1, base + 2)
              pushed == Append(c.tree, newNode)
              \* find(blocking)?.dependsOn.push(id); newNode.dependedOnBy.push(blocking)
              h1 == c.heap \o <<(<<>>), IF blocking # null THEN <<blocking>> ELSE <<>>>>
              h2 == pushDependency(pushed, h1, blocking, id)
              v == validate(pushed, h2)
              newTreeHistory == Append(HistoryPrefix(treeHistory, treeIndex), v.tree)
          IN IF ~v.ok THEN Reject(h2, v.error, "addNode", null)
             ELSE RoomFor(cap, "add", FALSE) /\
                  Commit(newTreeHistory, v.heap, Len(newTreeHistory) - 1, "add",
                         IF r = null THEN id ELSE rootNodeId,
                         id,
                         error, Appended("addNode", treeHistory, treeIndex),
                         afterUndo)

\* (mutant) the kind tag survives the undo
handleUndo_KeepsKind ==
  IF treeIndex > 0
  THEN Commit(treeHistory, heap, treeIndex - 1, lastUpdateKind, rootNodeId,
              selectedNodeId, error, Outcome("handleUndo", "moved"), TRUE)
  ELSE Commit(treeHistory, heap, treeIndex, lastUpdateKind, rootNodeId,
              selectedNodeId, error, Outcome("handleUndo", "none"), TRUE)

\* (mutant) undo with nothing to undo is reported as an error
handleUndo_ErrorAtStart ==
  IF treeIndex > 0
  THEN Commit(treeHistory, heap, treeIndex - 1, "", rootNodeId, selectedNodeId,
              error, Outcome("handleUndo", "moved"), TRUE)
  ELSE Commit(treeHistory, heap, treeIndex, lastUpdateKind, rootNodeId,
              selectedNodeId, "Nothing to undo", Outcome("handleUndo", "none"),
              TRUE)

handleUndo ==
  IF treeIndex > 0
  THEN Commit(treeHistory, heap, treeIndex - 1, "", rootNodeId, selectedNodeId,
              error, Outcome("handleUndo", "moved"), TRUE)
  ELSE Commit(treeHistory, heap, treeIndex, lastUpdateKind, rootNodeId,
              selectedNodeId, error, Outcome("handleUndo", "none"), TRUE)

handleRedo ==
  IF treeIndex < Len(treeHistory) - 1
  THEN Commit(treeHistory, heap, treeIndex + 1, "", rootNodeId, selectedNodeId,
              error, Outcome("handleRedo", "moved"), afterUndo)
  ELSE Commit(treeHistory, heap, treeIndex, lastUpdateKind, rootNodeId,
              selectedNodeId, error, Outcome("handleRedo", "none"), afterUndo)

\* (mutant) Undo All leaves lastUpdateKind as it is
handleUndoAll_KeepsKind ==
  Commit(treeHistory, heap, 0, lastUpdateKind, rootNodeId, selectedNodeId,
         error, Outcome("handleUndoAll", "moved"), TRUE)

\* (mutant) Undo All drops the snapshots after the first
handleUndoAll_Truncates ==
  Commit(HistoryPrefix(treeHistory, 0), heap, 0, "", rootNodeId,
         selectedNodeId, error, Outcome("handleUndoAll", "moved"), TRUE)

handleUndoAll ==
  Commit(treeHistory, heap, 0, "", rootNodeId, selectedNodeId, error,
         Outcome("handleUndoAll", "moved"), TRUE)

\* onPickNode / onRootSelect / "Back to Tree Selection" / popstate
setRootNodeId(id) ==
  Commit(treeHistory, heap, treeIndex, lastUpdateKind, id,
         IF id = null THEN null ELSE selectedNodeId, error,
         Outcome("other", "none"), afterUndo)

\* onNodeSelect / onClose / popstate
setSelectedNodeId(id) ==
  Commit(treeHistory, heap, treeIndex, lastUpdateKind, rootNodeId, id, error,
         Outcome("other", "none"), afterUndo)

\* ErrorPopup's onClose
closeError ==
  /\ error # null
  /\ Commit(treeHistory, heap, treeIndex, lastUpdateKind, rootNodeId,
            selectedNodeId, null, Outcome("other", "none"), afterUndo)

\* Every id a snapshot of the history holds: what a click or the URL can name.
HistoryIds == UNION {NodeIds(treeHistory[k]) : k \in DOMAIN treeHistory}

\* The ids a handler is called with: those of the current tree and an absent one.
InputIds == NodeIds(tree) \cup {AbsentId}

NextWith(cap) ==
  \/ \E title \in Titles : handleSetTitle(cap, title)
  \/ \E description \in Descriptions : handleSetDescription(cap, description)
  \/ \E id \in InputIds : handleAddDependency(cap, id)
  \/ \E id \in InputIds : handleRemoveDependency(cap, id)
  \/ \E id \in InputIds : deleteNode(cap, id)
  \/ Len(tree) < MaxNodes /\ addNode(cap)
  \/ handleUndo
  \/ handleRedo
  \/ handleUndoAll
  \/ \E id \in HistoryIds \cup {null} : setRootNodeId(id)
  \/ \E id \in HistoryIds \cup {null} : setSelectedNodeId(id)
  \/ closeError

Next == NextWith(MaxHistory)

Spec == Init /\ [][Next]_vars

\* A longer history over the one-node tree.
InitLong == Mounted(LoadedTree(InitIds, 1, <<(<<>>)>>))

NextLong == NextWith(MaxLongHistory)

SpecLong == InitLong /\ [][NextLong]_vars

\* ---------------------------------------------------------- reachability
\* The ids one dependsOn edge away from the ids in S, in the tree view tv.
Successors(tv, S) ==
  UNION {Range(tv[k].dependsOn) : k \in {j \in DOMAIN tv : tv[j].id \in S}}

RECURSIVE Closure(_, _)
Closure(tv, S) ==
  LET more == S \cup Successors(tv, S)
  IN IF more = S THEN S ELSE Closure(tv, more)

\* The ids reachable from id by one or more dependsOn edges.
ReachablePlus(tv, id) == Closure(tv, Successors(tv, {id}))

\* ------------------------------------------------ the edits the UI offers
\* The ids NodePickerModal lists for the viewed node
PickableIds ==
  IF HasNode(tree, selectedNodeId)
  THEN {n.id : n \in Range(availableNodes(tree, heap, selectedNodeId))}
  ELSE {}

\* the delete button of NodeViewer
handleDelete(cap) ==
  /\ HasNode(tree, selectedNodeId)
  /\ deleteNode(cap, ViewedNode.id)

NextUI ==
  \/ \E title \in Titles : handleSetTitle(MaxHistory, title)
  \/ \E description \in Descriptions : handleSetDescription(MaxHistory, description)
  \/ \E id \in PickableIds : handleAddDependency(MaxHistory, id)
  \/ \E id \in HistoryIds : handleRemoveDependency(MaxHistory, id)
  \/ handleDelete(MaxHistory)
  \/ Len(tree) < MaxNodes /\ addNode(MaxHistory)
  \/ handleUndo
  \/ handleRedo
  \/ handleUndoAll
  \/ \E id \in HistoryIds \cup {null} : setRootNodeId(id)
  \/ \E id \in HistoryIds \cup {null} : setSelectedNodeId(id)
  \/ closeError

\* no node reaches itself along dependsOn
Acyclic(tv) == \A n \in DOMAIN tv : tv[n].id \notin ReachablePlus(tv, tv[n].id)

\* The viewer opened on a file whose dependsOn relation is acyclic: a node
\* depends on at most one node, listed after it in the file.
InitUI ==
  \E n \in 1..MaxUINodes :
    \E deps \in [1..n -> InitDeps({PureIds[k] : k \in 1..n})] :
      /\ \A k \in 1..n : Range(deps[k]) \subseteq {PureIds[j] : j \in (k + 1)..n}
      /\ Mounted(LoadedTree(PureIds, n, deps))

SpecUI == InitUI /\ [][NextUI]_vars

\* ------------------------------------------------- wouldCreateCycle alone
\* The subset S of ids as a dependsOn list, in the order of ids.
ListOf(ids, S) == SelectSeq(ids, LAMBDA x : x \in S)

\* NodeViewer rendered over a valid tree of up to MaxPureNodes nodes, cycles
\* and self-dependencies included.
InitCycle ==
  \E n \in 1..MaxPureNodes :
    \E deps \in [1..n -> SUBSET {PureIds[k] : k \in 1..n}] :
      Mounted(LoadedTree(PureIds, n,
                         [k \in 1..n |-> ListOf(SubSeq(PureIds, 1, n), deps[k])]))

\* the availableNodes filter evaluating wouldCreateCycle(fullTree, fromId, toId)
callWouldCreateCycle(fromId, toId) ==
  /\ fromId # toId
  /\ result' = [op |-> "wouldCreateCycle", fromId |-> fromId, toId |-> toId,
                value |-> wouldCreateCycle(tree, heap, fromId, toId)]
  /\ UNCHANGED <<treeHistory, heap, treeIndex, lastUpdateKind, rootNodeId,
                 selectedNodeId, error, last, afterUndo, app, bugs>>

NextCycle ==
  \E fromId \in NodeIds(tree) : \E toId \in NodeIds(tree) :
    callWouldCreateCycle(fromId, toId)

SpecCycle == InitCycle /\ [][NextCycle]_vars

\* ------------------------------------------------------ the queries alone
\* A tree as a caller can hand it to the queries without validate: nodes
\* ids[1..n], the node at k with dependsOn deps[k], which may name no node,
\* and with the dependedOnBy that validate would compute, led by an id that
\* names no node for the node at `stray`.
RawTree(ids, n, deps, stray) ==
  LET by(k) == (IF k = stray THEN <<AbsentId>> ELSE <<>>)
                 \o SelectSeq(SubSeq(ids, 1, n),
                      LAMBDA x : \E j \in 1..n : ids[j] = x /\ ids[k] \in Range(deps[j]))
  IN [hist |-> <<[k \in 1..n |->
                   TechNode(ids[k], InitTitle(ids[k]), "", 2 * k - 1, 2 * k)]>>,
      heap |-> [a \in 1..(2 * n) |->
                  IF a % 2 = 1 THEN deps[(a + 1) \div 2] ELSE by(a \div 2)]]

InitQuery ==
  \E n \in 1..MaxPureNodes :
    \E deps \in [1..n -> {S \in SUBSET ({PureIds[k] : k \in 1..n} \cup {AbsentId}) :
                            Cardinality(S) <= MaxDeps}] :
      \E stray \in 0..n :
        Mounted(RawTree(PureIds, n,
                        [k \in 1..n |->
                           ListOf(SubSeq(PureIds, 1, n) \o <<AbsentId>>, deps[k])],
                        stray))

Answer(op, args, value, expanded, calls) ==
  [op |-> op, args |-> args, value |-> value, expanded |-> expanded,
   calls |-> calls]

Unasked ==
  /\ result = NoResult
  /\ UNCHANGED <<treeHistory, heap, treeIndex, lastUpdateKind, rootNodeId,
                 selectedNodeId, error, last, afterUndo, app, bugs>>

callSubgraph(root) ==
  /\ Unasked
  /\ LET r == subgraph(tree, heap, root)
     IN result' = Answer("subgraph", <<root>>,
                         IF r.ok THEN r.nodes ELSE r.error, r.expanded, r.calls)

callFindRootNodeOf(node) ==
  /\ Unasked
  /\ LET r == findRootNodeOf(tree, heap, node)
     IN result' = Answer("findRootNodeOf", <<node>>, r.value, r.expanded, r.calls)

callCycleSearch(fromId, toId) ==
  /\ Unasked
  /\ LET r == cycleSearch(tree, heap, fromId, toId)
     IN result' = Answer("wouldCreateCycle", <<fromId, toId>>, r.found,
                         r.st.expanded, r.st.calls)

NextQuery ==
  \/ \E root \in InputIds : callSubgraph(root)
  \/ \E node \in InputIds : callFindRootNodeOf(node)
  \/ \E fromId \in InputIds : \E toId \in InputIds : callCycleSearch(fromId, toId)

SpecQuery == InitQuery /\ [][NextQuery]_vars

\* ------------------------------------------------------- one edit at a time
\* The titles typed into the title field
EditTitles == {"A", "B", "C", "D"}

RECURSIVE SumOf(_)
SumOf(ns) == IF ns = <<>> THEN 0 ELSE Head(ns) + SumOf(Tail(ns))

\* The viewer opened on a valid file of up to MaxEditNodes nodes and up to
\* MaxEditEdges dependencies, at most MaxDeps of them of one node, cycles and
\* self-dependencies included.
InitEdit ==
  \E n \in 1..MaxEditNodes :
    \E deps \in [1..n -> {S \in SUBSET {PureIds[k] : k \in 1..n} :
                            Cardinality(S) <= MaxDeps}] :
      /\ SumOf([k \in 1..n |-> Cardinality(deps[k])]) <= MaxEditEdges
      /\ Mounted(LoadedTree(PureIds, n,
                         [k \in 1..n |-> ListOf(SubSeq(PureIds, 1, n), deps[k])]))

\* The first edit made after opening the file, on any choice of root and
\* selected node.
NextEdit ==
  /\ treeIndex = 0
  /\ \/ \E title \in EditTitles : handleSetTitle(MaxHistory, title)
     \/ \E id \in InputIds : handleAddDependency(MaxHistory, id)
     \/ \E id \in InputIds : deleteNode(MaxHistory, id)
     \/ addNode(MaxHistory)
     \/ \E id \in NodeIds(tree) \cup {null} : setRootNodeId(id)
     \/ \E id \in NodeIds(tree) \cup {null} : setSelectedNodeId(id)

SpecEdit == InitEdit /\ [][NextEdit]_vars

\* ================================================================== claims
DerivedInverse(tv) ==
  \A n \in DOMAIN tv : \A m \in DOMAIN tv :
    (tv[m].id \in Range(tv[n].dependsOn)) <=> (tv[n].id \in Range(tv[m].dependedOnBy))

\* C1: every snapshot of treeHistory satisfies the derived-inverse invariant:
\* for all nodes n and m of the snapshot, m.id is in n.dependsOn if and only
\* if n.id is in m.dependedOnBy.
C1_DerivedInverse ==
  \A k \in DOMAIN treeHistory : DerivedInverse(HistoryView[k])

ReferentialIntegrity(tv) ==
  /\ \A n \in DOMAIN tv : tv[n].id \notin BlankIds
  /\ \A n \in DOMAIN tv : \A m \in DOMAIN tv : n # m => tv[n].id # tv[m].id
  /\ \A n \in DOMAIN tv : Range(tv[n].dependsOn) \subseteq {tv[m].id : m \in DOMAIN tv}

\* C3: in every snapshot of treeHistory node ids are non-empty and pairwise
\* distinct, and every id in a node's dependsOn is the id of a node of that
\* same snapshot.
C3_ReferentialIntegrity ==
  \A k \in DOMAIN treeHistory : ReferentialIntegrity(HistoryView[k])

\* What the claim says a recorded snapshot keeps: ids, titles, descriptions
\* and dependsOn lists.
Recorded(tv) ==
  [n \in DOMAIN tv |->
     [id |-> tv[n].id, title |-> tv[n].title, description |-> tv[n].description,
      dependsOn |-> tv[n].dependsOn]]

\* The snapshots of the history that the step leaves in it: all of them, but
\* for an edit those up to the current one (before it when the edit merges).
Kept ==
  IF last'.outcome = "merged" THEN 1..treeIndex
  ELSE IF last'.outcome = "appended" THEN 1..(treeIndex + 1)
  ELSE DOMAIN treeHistory

\* C6: a snapshot that stays in the history keeps the node ids, titles,
\* descriptions and dependsOn lists it had when it was recorded.
C6_SnapshotsNeverModified ==
  [][\A k \in Kept : Recorded(HistoryView'[k]) = Recorded(HistoryView[k])]_vars

\* C2: from an acyclic initial tree, under the edits the UI offers, every
\* snapshot of treeHistory has an acyclic dependsOn relation, and no node
\* depends on itself.
C2_Acyclic ==
  \A k \in DOMAIN treeHistory :
    /\ Acyclic(HistoryView[k])
    /\ \A n \in DOMAIN HistoryView[k] :
         HistoryView[k][n].id \notin Range(HistoryView[k][n].dependsOn)

\* C2 witness: a dependency was added through the picker, and for the viewed
\* node the picker now withholds a node that would close a cycle.
C2_Witness ==
  /\ lastUpdateKind = "add-dependency"
  /\ HasNode(tree, selectedNodeId)
  /\ \E n \in NodeIds(tree) :
       /\ n # selectedNodeId
       /\ n \notin Range(heap[ViewedNode.dependsOn])
       /\ n \notin PickableIds

\* C4: for a valid tree and distinct ids fromId, toId of the tree,
\* wouldCreateCycle(tree, fromId, toId) is true if and only if fromId is
\* reachable from toId along dependsOn edges.
C4_CycleIffReachable ==
  result.op = "wouldCreateCycle" =>
    (result.value <=>
       result.fromId \in ReachablePlus(TreeView(tree, heap), result.toId))

\* C4 witness: a cycle is reported for a path of more than one edge.
C4_Witness ==
  /\ result.op = "wouldCreateCycle"
  /\ result.value
  /\ result.fromId \notin Range(heap[tree[FindIndex(tree, result.toId)].dependsOn])

MergeKinds == {"set-title", "set-description"}

\* The snapshots from position `from` to position `to` of the history, as
\* the claims compare them: by the ids, titles, descriptions and dependsOn
\* lists of their nodes.
Snapshots(view, from, to) == [k \in from..to |-> Recorded(view[k])]

\* C7: an accepted edit that is not coalesced, made with history h at index
\* i, leaves h[0..i] followed by the new tree, at index i+1 with nothing to
\* redo; undo and redo only move the index inside the unchanged history, so
\* a discarded snapshot is never the current tree again.
C7_TruncateAndAppend ==
  [][/\ last'.outcome = "appended" =>
          /\ Len(treeHistory') = treeIndex + 2
          /\ Snapshots(HistoryView', 1, treeIndex + 1)
               = Snapshots(HistoryView, 1, treeIndex + 1)
          /\ treeIndex' = treeIndex + 1
          /\ ~canRedo'
     /\ last'.op \in {"handleUndo", "handleRedo", "handleUndoAll"} =>
          /\ Snapshots(HistoryView', 1, Len(treeHistory'))
               = Snapshots(HistoryView, 1, Len(treeHistory))
          /\ treeIndex' \in 0..(Len(treeHistory) - 1)]_vars

\* C8: an accepted updateNode with allowMerge = true whose kind equals
\* lastUpdateKind replaces only the current snapshot: the length of the
\* history and the index are unchanged and every earlier snapshot is as it
\* was; an Undo right after a merged edit moves one snapshot back in the
\* unchanged history.
C8_MergeReplacesCurrent ==
  [][/\ ( /\ last'.op = "updateNode" /\ last'.outcome # "rejected"
          /\ lastUpdateKind \in MergeKinds
          /\ lastUpdateKind' = lastUpdateKind ) =>
          /\ Len(treeHistory') = Len(treeHistory)
          /\ treeIndex' = treeIndex
          /\ Snapshots(HistoryView', 1, treeIndex)
               = Snapshots(HistoryView, 1, treeIndex)
     /\ (last.outcome = "merged" /\ last'.op = "handleUndo") =>
          /\ treeIndex' = treeIndex - 1
          /\ Snapshots(HistoryView', 1, Len(treeHistory'))
               = Snapshots(HistoryView, 1, Len(treeHistory))]_vars

\* C9: after Undo or Undo All, the next accepted updateNode appends a new
\* snapshot: the snapshot the undo reached stays in the history, below the
\* new current one.
C9_NoMergeAfterUndo ==
  [][( /\ afterUndo
       /\ last'.op = "updateNode" /\ last'.outcome # "rejected" ) =>
       /\ Len(treeHistory') = treeIndex + 2
       /\ treeIndex' = treeIndex + 1
       /\ treeHistory'[treeIndex + 1] = treeHistory[treeIndex + 1]]_vars

\* C9 witness: a mergeable edit accepted while there was a snapshot to redo,
\* that is after an undo with no accepted edit in between.
C9_Witness ==
  /\ last.op = "updateNode" /\ last.outcome = "appended"
  /\ last.dropped >= 1
  /\ lastUpdateKind \in MergeKinds

\* C10: treeHistory is never empty and 0 <= treeIndex < treeHistory.length;
\* handleUndo at index 0 and handleRedo at the last index change neither the
\* history nor the index nor the current tree, and set no error.
C10_IndexInRange ==
  /\ [](Len(treeHistory) >= 1 /\ treeIndex \in 0..(Len(treeHistory) - 1))
  /\ [][( \/ last'.op = "handleUndo" /\ treeIndex = 0
          \/ last'.op = "handleRedo" /\ treeIndex = Len(treeHistory) - 1 ) =>
          /\ HistoryView' = HistoryView
          /\ treeIndex' = treeIndex
          /\ error' = error]_vars

\* C10 witness: Undo pressed on the first snapshot of a history of two.
C10_Witness ==
  /\ last.op = "handleUndo" /\ last.outcome = "none"
  /\ treeIndex = 0 /\ Len(treeHistory) = 2


\* C11: Undo, Redo and Undo All leave the length and the contents of
\* treeHistory as they are and only move treeIndex.  Undo from index i > 0
\* goes to i-1 with the tree it left as the one Redo makes current, and Redo
\* goes one up to exactly that tree; Undo All goes to 0, from where each Redo
\* goes one up, so i of them are back at index i with the same tree.
C11_UndoRedoMoveOnly ==
  [][/\ last'.op \in {"handleUndo", "handleRedo", "handleUndoAll"} =>
          /\ Len(treeHistory') = Len(treeHistory)
          /\ HistoryView' = HistoryView
     /\ (last'.op = "handleUndo" /\ treeIndex > 0) =>
          /\ treeIndex' = treeIndex - 1
          /\ canRedo'
          /\ HistoryView'[treeIndex' + 2] = HistoryView[treeIndex + 1]
     /\ (last'.op = "handleRedo" /\ canRedo) =>
          /\ treeIndex' = treeIndex + 1
          /\ TreeView(tree', heap') = HistoryView[treeIndex + 2]
     /\ last'.op = "handleUndoAll" =>
          /\ treeIndex' = 0
          /\ HistoryView'[treeIndex + 1] = HistoryView[treeIndex + 1]]_vars

\* C11 witness: Redo has just reached the third snapshot of three, which only
\* an undo below it and redos back up can precede.
C11_Witness ==
  /\ last.op = "handleRedo" /\ last.outcome = "moved"
  /\ Len(treeHistory) = 3 /\ treeIndex = 2
  /\ afterUndo


\* The current tree, arrays resolved
CurrentView == TreeView(tree, heap)

\* The step is an accepted updateNode made from NodeViewer
AcceptedUpdate ==
  /\ last'.op = "updateNode"
  /\ last'.outcome \in {"appended", "merged"}

\* list with every entry equal to oldId replaced by newId
Renamed(list, oldId, newId) ==
  [i \in DOMAIN list |-> IF list[i] = oldId THEN newId ELSE list[i]]

\* C12: an accepted set-title that changes the id of the viewed node from
\* oldId to newId leaves a current tree with the same number of nodes, in
\* which oldId is no node id and is in no dependsOn or dependedOnBy list, and
\* in which every dependsOn list is the old one with newId in the place of
\* oldId.
C12_RenameRewritesReferences ==
  [][LET oldId == selectedNodeId
         newId == selectedNodeId'
         old == CurrentView
         new == CurrentView'
     IN ( /\ AcceptedUpdate
          /\ lastUpdateKind' = "set-title"
          /\ newId # oldId ) =>
          /\ Len(new) = Len(old)
          /\ \A k \in DOMAIN new :
               /\ new[k].id = (IF old[k].id = oldId THEN newId ELSE old[k].id)
               /\ new[k].id # oldId
               /\ oldId \notin Range(new[k].dependsOn)
               /\ oldId \notin Range(new[k].dependedOnBy)
               /\ new[k].dependsOn = Renamed(old[k].dependsOn, oldId, newId)]_vars

\* C12 witness: the renamed node is one of two dependencies of another node.
C12_Witness ==
  /\ last.op = "updateNode" /\ last.outcome = "appended"
  /\ lastUpdateKind = "set-title"
  /\ Len(treeHistory) = 2 /\ treeIndex = 1
  /\ \E k \in DOMAIN tree : \E m \in DOMAIN tree :
       /\ k # m
       /\ tree[k].id = selectedNodeId
       /\ treeHistory[1][k].id # selectedNodeId
       /\ selectedNodeId \in Range(CurrentView[m].dependsOn)
       /\ Len(CurrentView[m].dependsOn) = 2


\* C13: a set-title whose new id is the id of another node of the current
\* tree is never accepted, and its rejection leaves the history, the index
\* and the current tree (the other node and the old id in it) as they were.
C13_CollidingRenameRejected ==
  [][/\ ( /\ AcceptedUpdate
          /\ lastUpdateKind' = "set-title"
          /\ selectedNodeId' # selectedNodeId ) =>
          ~HasNode(tree, selectedNodeId')
     /\ (last'.op = "updateNode" /\ last'.outcome = "rejected") =>
          /\ HistoryView' = HistoryView
          /\ treeIndex' = treeIndex
          /\ CurrentView' = CurrentView
          /\ error' # null]_vars

\* C13 witness: the rename of a node that depends on itself to the id of
\* another node was rejected by the pre-check.
C13_Witness ==
  /\ last.op = "updateNode" /\ last.outcome = "rejected"
  /\ error = ErrExists
  /\ Len(tree) >= 2
  /\ \E k \in DOMAIN tree :
       /\ tree[k].id = selectedNodeId
       /\ selectedNodeId \in Range(CurrentView[k].dependsOn)


\* C14: deleteNode(id) for an id of the current tree is accepted, whether or
\* not other nodes depend on the node, and the new current tree has no node
\* with that id and no dependsOn or dependedOnBy list with that id in it.
C14_DeleteLeavesNoReference ==
  [][(last'.op = "deleteNode" /\ HasNode(tree, last'.arg)) =>
       /\ last'.outcome = "appended"
       /\ \A k \in DOMAIN CurrentView' :
            /\ CurrentView'[k].id # last'.arg
            /\ last'.arg \notin Range(CurrentView'[k].dependsOn)
            /\ last'.arg \notin Range(CurrentView'[k].dependedOnBy)]_vars

\* C14 witness: a node was deleted that another node, still in the tree,
\* depended on in the snapshot before.
C14_Witness ==
  /\ last.op = "deleteNode" /\ last.outcome = "appended"
  /\ Len(treeHistory) = 2 /\ treeIndex = 1
  /\ HasNode(treeHistory[1], last.arg)
  /\ \E k \in DOMAIN HistoryView[1] :
       /\ HistoryView[1][k].id # last.arg
       /\ last.arg \in Range(HistoryView[1][k].dependsOn)
       /\ HasNode(tree, HistoryView[1][k].id)


\* the node with the given id in a tree view
NodeOf(tv, id) == tv[CHOOSE k \in DOMAIN tv : tv[k].id = id]

\* C15: an accepted add-dependency on node a never adds a's own id, an id
\* already in a.dependsOn, or an id from which a is reachable along
\* dependsOn: updateNode rejects those edges itself.
C15_AddDependencyRejectsInvalidEdge ==
  [][( /\ AcceptedUpdate
       /\ lastUpdateKind' = "add-dependency" ) =>
       LET a == selectedNodeId
           before == NodeOf(CurrentView, a).dependsOn
           after == NodeOf(CurrentView', a).dependsOn
           b == after[Len(after)]
       IN /\ b # a
          /\ b \notin Range(before)
          /\ a \notin ReachablePlus(CurrentView, b)]_vars


\* C16: an accepted addNode with blocking node b (the selected node, else the
\* root node) leaves the old tree plus one node n at its end: n.id was not
\* in the old tree, n.dependsOn is empty and n.dependedOnBy = [b];
\* b.dependsOn is its old list with n.id appended; every other node keeps
\* its id, title, description and dependsOn.  With no blocking node no node
\* of the old tree changes and n.dependedOnBy is empty.
C16_AddNodeFrame ==
  [][(last'.op = "addNode" /\ last'.outcome = "appended") =>
       LET s == Effective(tree, selectedNodeId)
           b == IF s # null THEN s ELSE Effective(tree, rootNodeId)
           old == CurrentView
           new == CurrentView'
           n == new[Len(new)]
       IN /\ Len(new) = Len(old) + 1
          /\ n.id \notin {old[k].id : k \in DOMAIN old}
          /\ n.dependsOn = <<>>
          /\ n.dependedOnBy = (IF b # null THEN <<b>> ELSE <<>>)
          /\ \A k \in DOMAIN old :
               /\ new[k].id = old[k].id
               /\ new[k].title = old[k].title
               /\ new[k].description = old[k].description
               /\ new[k].dependsOn = (IF old[k].id = b
                                      THEN Append(old[k].dependsOn, n.id)
                                      ELSE old[k].dependsOn)
               /\ b = null => new[k] = old[k]]_vars

\* C16 witness: a node was added under a blocking node that had a dependency
\* already, in a tree with a third node.
C16_Witness ==
  /\ last.op = "addNode" /\ last.outcome = "appended"
  /\ Len(tree) >= 4
  /\ \E k \in DOMAIN tree :
       /\ Len(CurrentView[k].dependsOn) = 2
       /\ CurrentView[k].dependsOn[2] = tree[Len(tree)].id
       /\ CurrentView[Len(tree)].dependedOnBy = <<tree[k].id>>


\* C17: for an id r of a node of t, subgraph(t, r) is the nodes of t, in
\* their order in t, that are r or are reachable from r along dependsOn, so
\* a single node when r has no dependencies; for an r that is no node of t
\* it fails with the root-not-found error.
C17_SubgraphIsClosure ==
  result.op = "subgraph" =>
    LET r == result.args[1]
        reach == {r} \cup ReachablePlus(CurrentView, r)
    IN IF HasNode(tree, r)
       THEN /\ result.value = SelectSeq(tree, LAMBDA n : n.id \in reach)
            /\ NodeOf(CurrentView, r).dependsOn = <<>> =>
                 result.value = <<NodeMapGet(tree, r)>>
       ELSE result.value = ErrRootMissing

\* C17 witness: a subgraph with a node that the root reaches only through
\* another node.
C17_Witness ==
  /\ result.op = "subgraph"
  /\ Len(tree) = 3
  /\ HasNode(tree, result.args[1])
  /\ \E k \in DOMAIN result.value :
       /\ result.value[k].id # result.args[1]
       /\ result.value[k].id \notin Range(NodeOf(CurrentView, result.args[1]).dependsOn)


\* dependedOnBy is exactly the inverse of dependsOn: the derived inverse
\* among the nodes, and no dependedOnBy entry that names no node
ExactInverse(tv) ==
  /\ DerivedInverse(tv)
  /\ \A n \in DOMAIN tv : Range(tv[n].dependedOnBy) \subseteq {tv[m].id : m \in DOMAIN tv}

\* r is a node of tv nothing depends on, and id is in subgraph(tv, r)
IsRootOf(tv, r, id) ==
  /\ \E k \in DOMAIN tv : tv[k].id = r /\ tv[k].dependedOnBy = <<>>
  /\ id \in {r} \cup ReachablePlus(tv, r)

NoRepeat(s) == \A i, j \in DOMAIN s : s[i] = s[j] => i = j

\* C19: subgraph, findRootNodeOf and wouldCreateCycle return on every tree,
\* cyclic, self-dependent or with dangling references: the traversal ends
\* before the cut at MaxCalls and expands no node id twice.
C19_TraversalsTerminate ==
  result.op \in {"subgraph", "findRootNodeOf", "wouldCreateCycle"} =>
    /\ result.calls < MaxCalls
    /\ NoRepeat(result.expanded)
    /\ Len(result.expanded) <= Len(tree)

\* C19 witness: subgraph has returned on a tree with a dependency cycle, a
\* self-dependency and a dangling reference, after expanding two nodes.
C19_Witness ==
  /\ result.op = "subgraph"
  /\ ~Acyclic(CurrentView)
  /\ \E n \in DOMAIN CurrentView : CurrentView[n].id \in Range(CurrentView[n].dependsOn)
  /\ \E n \in DOMAIN CurrentView : AbsentId \in Range(CurrentView[n].dependsOn)
  /\ Len(result.expanded) >= 2


\* ------------------------------------------------------- validate alone
MaxRawNodes == 2
MaxRawDeps == 2

RawIds == {"a", "b", "", " ", " a"}
RawDepIds == {"a", "b", AbsentId}

\* dependsOn arrays of strings: up to MaxRawDeps ids, repeats included
RawDepLists ==
  UNION {[1..n -> {Str(d) : d \in RawDepIds}] : n \in 0..MaxRawDeps}

\* Nodes with every property of the right type
TypedRawNodes ==
  {JsonNode("object", Str(id), Str("A"), Str(""), Arr(deps)) :
     id \in RawIds, deps \in RawDepLists}

\* Nodes with one property, or the node itself, of another type; and a node
\* with an empty title
OddRawNodes ==
  LET good == JsonNode("object", Str("a"), Str("A"), Str(""), Arr(<<>>))
  IN {[good EXCEPT !.type = t] : t \in {"null", "number", "string", "array"}}
     \cup {[good EXCEPT !.id = Other(t)] : t \in {"number", "undefined", "null"}}
     \cup {[good EXCEPT !.title = Other(t)] : t \in {"number", "undefined"}}
     \cup {[good EXCEPT !.title = Str("")]}
     \cup {[good EXCEPT !.description = Other(t)] : t \in {"number", "undefined"}}
     \cup {[good EXCEPT !.dependsOn = NotArr(t)] :
             t \in {"undefined", "null", "string", "object"}}
     \cup {[good EXCEPT !.dependsOn = Arr(items)] :
             items \in {<<Other("number")>>, <<Str("a"), Other("null")>>}}

\* The values handed to validate: objects with a nodes array of up to
\* MaxRawNodes nodes, objects whose nodes is no array, and values that are
\* no object
RawInputs ==
  {JsonTree("object", Arr(nodes)) :
     nodes \in UNION {[1..n -> TypedRawNodes \cup OddRawNodes] : n \in 0..MaxRawNodes}}
  \cup {JsonTree("object", NotArr(t)) : t \in {"undefined", "null", "string", "object"}}
  \cup {JsonTree(t, NotArr("undefined")) :
          t \in {"null", "undefined", "number", "string", "boolean", "array"}}

\* JSON.parse has returned `input`; validate has not been called yet.
Parsed(input) ==
  [op |-> "parsed", args |-> <<input>>,
   value |-> [ok |-> FALSE, error |-> null, nodes |-> <<>>],
   expanded |-> <<>>, calls |-> 0]

InitValidate ==
  \E input \in RawInputs :
    /\ treeHistory = <<<<>>>>
    /\ heap = <<>>
    /\ treeIndex = 0
    /\ lastUpdateKind = ""
    /\ rootNodeId = null
    /\ selectedNodeId = null
    /\ error = null
    /\ last = Outcome("other", "none")
    /\ afterUndo = FALSE
    /\ result = Parsed(input)
    /\ app = AppStart
    /\ bugs = BugsStart

\* validate(parsed): what it returns, or the error it throws
callValidate ==
  /\ result.op = "parsed"
  /\ LET v == validateInput(result.args[1])
     IN result' = Answer("validate", result.args,
                         [ok |-> v.ok, error |-> v.error,
                          nodes |-> IF v.ok THEN TreeView(v.tree, v.heap)
                                    ELSE <<>>], <<>>, 0)
  /\ UNCHANGED <<treeHistory, heap, treeIndex, lastUpdateKind, rootNodeId,
                 selectedNodeId, error, last, afterUndo, app, bugs>>

NextValidate == callValidate

SpecValidate == InitValidate /\ [][NextValidate]_vars

\* The input is an object with a nodes array whose nodes are objects with a
\* unique string id that is not white space only, a string title, a string
\* description and an array dependsOn of strings that are ids of the nodes.
WellFormedInput(input) ==
  /\ input.type = "object"
  /\ input.nodes.type = "array"
  /\ LET nodes == input.nodes.items
     IN \A i \in DOMAIN nodes :
          /\ nodes[i].type = "object"
          /\ nodes[i].id.type = "string"
          /\ nodes[i].id.str \notin BlankIds
          /\ \A j \in DOMAIN nodes : nodes[j].id = nodes[i].id => j = i
          /\ nodes[i].title.type = "string"
          /\ nodes[i].description.type = "string"
          /\ nodes[i].dependsOn.type = "array"
          /\ \A d \in Range(nodes[i].dependsOn.items) :
               /\ d.type = "string"
               /\ \E k \in DOMAIN nodes : nodes[k].id = d

\* C20: validate returns without error exactly for the well-formed inputs;
\* a dependency cycle or a self-dependency among well-formed nodes is
\* accepted like any other dependency.
C20_ValidateAcceptsWellFormed ==
  result.op = "validate" =>
    /\ result.value.ok <=> WellFormedInput(result.args[1])
    /\ result.value.ok =>
         /\ result.value.error = null
         /\ Len(result.value.nodes) = Len(result.args[1].nodes.items)
         /\ \A k \in DOMAIN result.value.nodes :
              /\ result.value.nodes[k].id = result.args[1].nodes.items[k].id.str
              /\ Len(result.value.nodes[k].dependsOn)
                   = Len(result.args[1].nodes.items[k].dependsOn.items)

\* C20 witness: validate accepted a tree of two nodes that depend on each
\* other, one of them on itself as well.
C20_Witness ==
  /\ result.op = "validate"
  /\ result.value.ok
  /\ Len(result.value.nodes) = 2
  /\ \E k \in 1..2 : result.value.nodes[k].id \in Range(result.value.nodes[k].dependsOn)
  /\ \A k \in 1..2 : result.value.nodes[3 - k].id \in Range(result.value.nodes[k].dependsOn)


\* The node is no object, or its id is no string or is white space only: what
\* the first pass looks at before it looks the id up
IdFault(n) ==
  \/ n.type # "object"
  \/ n.id.type # "string"
  \/ n.id.str \in BlankIds

\* The id of the node at i is the id of a node before it
DuplicateAt(nodes, i) == \E j \in 1..(i - 1) : nodes[j].id = nodes[i].id

\* The title, the description, dependsOn or an entry of it has a wrong type
FieldFault(n) ==
  \/ n.title.type # "string"
  \/ n.description.type # "string"
  \/ n.dependsOn.type # "array"
  \/ \E d \in Range(n.dependsOn.items) : d.type # "string"

ShapeFault(n) == IdFault(n) \/ FieldFault(n)

ShapeErrors ==
  {ErrNodeNotObject, ErrEmptyId, ErrTitle, ErrDescription, ErrDependsOnArray,
   ErrDependsOnStrings}

\* C21 (as stated): among several violations validate reports a node of the
\* wrong shape anywhere in the input before any duplicate id, and a duplicate
\* id before any dangling reference.
C21_ShapeBeforeDuplicate ==
  (result.op = "validate" /\ ~result.value.ok
     /\ result.args[1].type = "object" /\ result.args[1].nodes.type = "array") =>
    LET nodes == result.args[1].nodes.items
    IN /\ result.value.error = ErrDuplicate =>
            \A i \in DOMAIN nodes : ~ShapeFault(nodes[i])
       /\ result.value.error = ErrDangling =>
            \A i \in DOMAIN nodes : ~ShapeFault(nodes[i]) /\ ~DuplicateAt(nodes, i)

\* C21 (amended): validate reports the input being no object, then nodes being
\* no array, then the first violation of the first node in index order that
\* has one, a node being checked for being an object with a non-empty string
\* id, then for an id seen at a lower index, then for the types of title,
\* description and dependsOn; a dangling reference is reported only when no
\* node has any of these violations.
C21_FirstViolationInNodeOrder ==
  (result.op = "validate" /\ ~result.value.ok) =>
    LET input == result.args[1]
        nodes == input.nodes.items
        faulty == {i \in DOMAIN nodes :
                     ShapeFault(nodes[i]) \/ DuplicateAt(nodes, i)}
        f == CHOOSE i \in faulty : \A j \in faulty : i <= j
        e == result.value.error
    IN IF input.type \notin {"object", "array"} THEN e = ErrNotObject
       ELSE IF input.type = "array" \/ input.nodes.type # "array"
       THEN e = ErrNodesNotArray
       ELSE IF faulty = {} THEN e = ErrDangling
       ELSE IF IdFault(nodes[f]) THEN e \in {ErrNodeNotObject, ErrEmptyId}
       ELSE IF DuplicateAt(nodes, f) THEN e = ErrDuplicate
       ELSE e \in ShapeErrors \ {ErrNodeNotObject, ErrEmptyId}

\* C21 witness: validate reported a duplicate id for an input in which the
\* node with the duplicate id has a field of the wrong type and another node
\* has a dangling reference.
C21_Witness ==
  /\ result.op = "validate"
  /\ result.value.error = ErrDuplicate
  /\ LET nodes == result.args[1].nodes.items
     IN /\ Len(nodes) = 2
        /\ FieldFault(nodes[2])
        /\ Str(AbsentId) \in Range(nodes[1].dependsOn.items)


\* ---------------------------------------------------- canonicalize alone
MaxCanonNodes == 3
MaxCanonEdges == 3

\* The ids of the trees canonicalize is given, in code unit order
CanonIds == <<"B", "a", Enfd, Enfc>>

Reverse(s) == [i \in DOMAIN s |-> s[Len(s) + 1 - i]]

\* The same tree with its nodes in the order perm and, when reversed, every
\* dependsOn and dependedOnBy array back to front
Reordered(t, h, perm, reversed) ==
  [tree |-> [k \in DOMAIN t |-> t[perm[k]]],
   heap |-> [a \in DOMAIN h |-> IF reversed THEN Reverse(h[a]) ELSE h[a]]]

\* A valid tree of up to MaxCanonNodes nodes with ids among CanonIds and up to
\* MaxCanonEdges dependencies
InitCanon ==
  \E S \in SUBSET (1..Len(CanonIds)) :
    /\ Cardinality(S) \in 1..MaxCanonNodes
    /\ LET ids == SelectSeq(CanonIds, LAMBDA x : \E k \in S : CanonIds[k] = x)
           n == Len(ids)
       IN \E deps \in [1..n -> {D \in SUBSET Range(ids) : Cardinality(D) <= MaxDeps}] :
            /\ SumOf([k \in 1..n |-> Cardinality(deps[k])]) <= MaxCanonEdges
            /\ Mounted(LoadedTree(ids, n, [k \in 1..n |-> ListOf(ids, deps[k])]))

\* canonicalize(tree), canonicalize of that, and canonicalize of the tree
\* reordered; `argument` is the tree passed, read after the call
callCanonicalize(perm, reversed) ==
  /\ result = NoResult
  /\ LET once == canonicalize(tree, heap)
         twice == canonicalize(once.tree, once.heap)
         other == Reordered(tree, heap, perm, reversed)
         permuted == canonicalize(other.tree, other.heap)
     IN result' = Answer("canonicalize", <<perm, reversed>>,
                         [once |-> TreeView(once.tree, once.heap),
                          twice |-> TreeView(twice.tree, twice.heap),
                          permuted |-> TreeView(permuted.tree, permuted.heap),
                          argument |-> TreeView(tree, once.heap)],
                         <<>>, 0)
  /\ UNCHANGED <<treeHistory, heap, treeIndex, lastUpdateKind, rootNodeId,
                 selectedNodeId, error, last, afterUndo, app, bugs>>

NextCanon ==
  \E perm \in Permutations(DOMAIN tree) :
    \E reversed \in BOOLEAN : callCanonicalize(perm, reversed)

SpecCanon == InitCanon /\ [][NextCanon]_vars

\* the nodes of a tree view as a set, arrays as sets of ids
NodeSet(tv) ==
  {[id |-> tv[k].id, title |-> tv[k].title, description |-> tv[k].description,
    dependsOn |-> Range(tv[k].dependsOn),
    dependedOnBy |-> Range(tv[k].dependedOnBy)] : k \in DOMAIN tv}

\* C22: canonicalize is idempotent, gives one value for trees that differ
\* only in the order of their nodes and of the entries of their arrays,
\* leaves its argument as it was and keeps the nodes and the edges.
C22_CanonicalizeIsCanonical ==
  result.op = "canonicalize" =>
    /\ result.value.twice = result.value.once
    /\ result.value.permuted = result.value.once
    /\ result.value.argument = CurrentView
    /\ Len(result.value.once) = Len(CurrentView)
    /\ NodeSet(result.value.once) = NodeSet(CurrentView)


\* --------------------------------------------------------------- AppInner
MaxFetches == 2

\* The keys of KnownTrees, a name that is no key of it, and a url
KnownNames == {"k1", "k2"}
UnknownName == "zz"
Urls == {"u1"}

ErrUnknownTree == "Unknown tech tree"
ErrLoadFailed == "Failed to load from URL"

\* The tree that validate returns for the data behind a known name or a url
TreeAt(target) ==
  CASE target = "k1" -> "tree k1" [] target = "k2" -> "tree k2"
    [] OTHER -> "tree u1"

\* The tree a chosen file holds
FileTree == "tree file"

\* What the URL may hold after the user moves in the session history
ParamChoices ==
  {NoParams}
  \cup {[tree |-> k, url |-> null] : k \in KnownNames \cup {UnknownName}}
  \cup {[tree |-> null, url |-> u] : u \in Urls}

AppStep(op, outcome, before, after) ==
  [op |-> op, outcome |-> outcome, before |-> before, after |-> after]

\* fetchTreeFromUrl(target) is started by `op`; no earlier fetch is the
\* latest any more
StartFetch(a, op, target) ==
  [a EXCEPT !.loading = TRUE,
            !.fetches = Append([i \in DOMAIN @ |-> [@[i] EXCEPT !.latest = FALSE]],
                               [target |-> target, op |-> op, before |-> a.tree,
                                after |-> a.tree, latest |-> TRUE]),
            !.asked = [what |-> target, outcome |-> "pending"]]

\* loadKnown(knownTree), up to the start of the fetch
loadKnown(a, knownTree) ==
  IF knownTree \notin KnownNames
  THEN [a EXCEPT !.error = ErrUnknownTree,
                 !.asked = [what |-> null, outcome |-> "none"]]
  ELSE [StartFetch(a, "loadKnown", knownTree) EXCEPT !.params.tree = knownTree]

\* loadUrl(url), up to the start of the fetch
loadUrl(a, url) ==
  [StartFetch(a, "loadUrl", url) EXCEPT !.params.url = url]

\* updateForURL(): loadKnown and return, or else loadUrl when there is a url,
\* and then setTree(null)
updateForURL(a) ==
  IF a.params.tree # null THEN loadKnown(a, a.params.tree)
  ELSE IF a.params.url # null
  THEN LET started == loadUrl(a, a.params.url)
           n == Len(started.fetches)
       IN [started EXCEPT !.tree = null, !.fetches[n].after = null]
  ELSE [a EXCEPT !.tree = null, !.asked = [what |-> "none", outcome |-> "none"]]

AppUnchanged ==
  UNCHANGED <<treeHistory, heap, treeIndex, lastUpdateKind, rootNodeId,
              selectedNodeId, error, last, afterUndo, result, bugs>>

\* The effect of AppInner after its first render
mountApp ==
  /\ app.last.op = "none"
  /\ LET a == updateForURL(app)
     IN app' = [a EXCEPT !.last = AppStep("mount", "done", app.tree, a.tree)]
  /\ AppUnchanged

\* popstate: the URL has become `params`, and updateForURL runs
popstate(params) ==
  /\ app.last.op # "none"
  /\ Len(app.fetches) < MaxFetches
  /\ LET a == updateForURL([app EXCEPT !.params = params])
     IN app' = [a EXCEPT !.last = AppStep("popstate", "done", app.tree, a.tree)]
  /\ AppUnchanged

\* The fetch at i ends: then(setTree, setError(null)) or catch(setError), and
\* finally setLoading(false)
fetchDone(i, ok) ==
  /\ i \in DOMAIN app.fetches
  /\ LET f == app.fetches[i]
         rest == RemoveAt(app.fetches, i)
         asked == IF f.latest
                  THEN [app.asked EXCEPT !.outcome = IF ok THEN "ok" ELSE "failed"]
                  ELSE app.asked
     IN app' = IF ok
               THEN [app EXCEPT !.tree = TreeAt(f.target), !.error = null,
                                !.loading = FALSE, !.fetches = rest,
                                !.asked = asked,
                                !.last = AppStep(f.op, "loaded", f.before, f.after)]
               ELSE [app EXCEPT !.error = ErrLoadFailed,
                                !.loading = FALSE, !.fetches = rest,
                                !.asked = asked,
                                !.last = AppStep(f.op, "failed", f.before, f.after)]
  /\ AppUnchanged

\* Home is rendered: not loading and no tree
HomeShown == app.last.op # "none" /\ ~app.loading /\ app.tree = null

\* TechTreeViewer is rendered: not loading and a tree
ViewerShown == app.last.op # "none" /\ ~app.loading /\ app.tree # null

ForgetAsked(a) == [a EXCEPT !.asked = [what |-> null, outcome |-> "none"]]

\* Home.handleFileUpload: validate(JSON.parse(text)) returns and onOpen is
\* called with the tree, or it throws and the handler's promise is rejected
handleFileUpload(ok) ==
  /\ HomeShown
  /\ app' = IF ok
            THEN [ForgetAsked(app) EXCEPT
                    !.tree = FileTree,
                    !.last = AppStep("handleFileUpload", "loaded", app.tree, app.tree)]
            ELSE [app EXCEPT
                    !.last = AppStep("handleFileUpload", "failed", app.tree, app.tree)]
  /\ AppUnchanged

\* Home.handleLoadTechTree: onKnown(selectedTechTree)
handleLoadTechTree(knownTree) ==
  /\ HomeShown
  /\ Len(app.fetches) < MaxFetches
  /\ LET a == loadKnown(app, knownTree)
     IN app' = [a EXCEPT !.last = AppStep("handleLoadTechTree", "done", app.tree, a.tree)]
  /\ AppUnchanged

\* newTree, from Home or from TechTreeViewer
newTree ==
  /\ HomeShown \/ ViewerShown
  /\ app' = [ForgetAsked(app) EXCEPT
               !.tree = "tree new", !.error = null, !.loading = FALSE,
               !.params = NoParams,
               !.last = AppStep("newTree", "done", app.tree, "tree new")]
  /\ AppUnchanged

\* back, from TechTreeViewer
back ==
  /\ ViewerShown
  /\ app' = [ForgetAsked(app) EXCEPT
               !.tree = null, !.error = null, !.loading = FALSE,
               !.params = NoParams,
               !.last = AppStep("back", "done", app.tree, null)]
  /\ AppUnchanged

\* ErrorPopup's onClose on Home
closeAppError ==
  /\ HomeShown
  /\ app.error # null
  /\ app' = [app EXCEPT !.error = null,
                        !.last = AppStep("closeError", "done", app.tree, app.tree)]
  /\ AppUnchanged

\* AppInner before its effect has run, with any URL
InitApp ==
  \E params \in ParamChoices :
    /\ ViewerMounted([hist |-> <<<<>>>>, heap |-> <<>>])
    /\ app = [AppStart EXCEPT !.params = params]
    /\ bugs = BugsStart

NextApp ==
  \/ mountApp
  \/ \E params \in ParamChoices : popstate(params)
  \/ \E i \in 1..MaxFetches : \E ok \in BOOLEAN : fetchDone(i, ok)
  \/ \E ok \in BOOLEAN : handleFileUpload(ok)
  \/ \E knownTree \in KnownNames : handleLoadTechTree(knownTree)
  \/ newTree
  \/ back
  \/ closeAppError

SpecApp == InitApp /\ [][NextApp]_vars

\* C23: a load that fails, started by loadKnown, by loadUrl or by a file
\* chosen on Home, leaves the tree as it was before the load was attempted
\* and sets an error: the failing step does not change the tree, the start of
\* the load did not change it, and the error is not null afterwards.
C23_FailedLoadKeepsTree ==
  [][(app'.last.outcome = "failed") =>
       /\ app'.tree = app.tree
       /\ app'.last.after = app'.last.before
       /\ app'.error # null]_vars

\* C29: when no fetch is in flight any more, AppInner holds the tree of the
\* load requested last if its fetch succeeded, and no tree if the last URL
\* change asked for none.
C29_LastRequestWins ==
  app.fetches = <<>> =>
    /\ app.asked.what = "none" => app.tree = null
    /\ (app.asked.what \in KnownNames \cup Urls /\ app.asked.outcome = "ok") =>
         app.tree = TreeAt(app.asked.what)


\* C24: deleteNode(id), for an id of the tree or not, removes no node whose id
\* differs from id: every other node of the tree is a node of the tree
\* current afterwards.
C24_DeleteRemovesOnlyTarget ==
  [][(last'.op = "deleteNode") =>
       \A k \in DOMAIN CurrentView :
         CurrentView[k].id # last'.arg =>
           \E j \in DOMAIN CurrentView' : CurrentView'[j].id = CurrentView[k].id]_vars


\* C25: lastUpdateKind is non-empty only while treeIndex is the last index of
\* treeHistory; so an edit that is merged replaces the last snapshot and
\* leaves the number of snapshots as it was.
C25_KindOnlyAtLastIndex ==
  [][/\ lastUpdateKind' # "" => treeIndex' = Len(treeHistory') - 1
     /\ last'.outcome = "merged" =>
          /\ treeIndex = Len(treeHistory) - 1
          /\ treeIndex' = treeIndex
          /\ Len(treeHistory') = Len(treeHistory)]_vars

\* C25 witness: an edit has been merged into the last of three snapshots.
C25_Witness ==
  /\ last.outcome = "merged"
  /\ lastUpdateKind # ""
  /\ Len(treeHistory) >= 3
  /\ treeIndex = Len(treeHistory) - 1


\* C26: the snapshot at index 0 is never replaced or changed: after every
\* step it has the contents the viewer was opened with, so Undo All shows
\* that tree, and treeIndex is 0 only while that tree is current.
C26_FirstSnapshotKept ==
  [][/\ HistoryView'[1] = HistoryView[1]
     /\ treeIndex' = 0 => TreeView(tree', heap') = HistoryView[1]]_vars


\* The positions of the nodes that the edit recorded last changed: those at
\* which the current snapshot differs from the one before it
EditedBefore ==
  IF treeIndex >= 1 /\ Len(treeHistory[treeIndex]) = Len(tree)
  THEN {k \in DOMAIN tree :
          Recorded(HistoryView[treeIndex])[k] # Recorded(CurrentView)[k]}
  ELSE {}

\* The step is an accepted set-title or set-description on a node other than
\* the one the last edit, of the same kind, was made on
SameKindOtherNode ==
  /\ AcceptedUpdate
  /\ lastUpdateKind \in MergeKinds
  /\ lastUpdateKind' = lastUpdateKind
  /\ \E k \in EditedBefore : k # FindIndex(tree, selectedNodeId)

Rendered(t, root, selected) ==
  [subgraph |-> IF root = null \/ ~HasNode(t, root) THEN null ELSE root,
   rootNodeId |-> Effective(t, root),
   selectedNodeId |-> Effective(t, selected)]

\* The values the state rootNodeId or selectedNodeId can hold when a render
\* starts: what is stored, an id of any snapshot, an id that names no node.
StateIds == HistoryIds \cup {null, AbsentId, rootNodeId, selectedNodeId}

\* C28: in every render the root subgraph is called with and the rootNodeId
\* and selectedNodeId used by addNode, Graph and NodeViewer are each null or the
\* id of a node of the current tree, whatever the stored ids are.
C28_RenderedIdsInTree ==
  LET stored == StateIds
      inTree == NodeIds(tree) \cup {null}
  IN \A root \in stored : \A selected \in stored :
       LET r == Rendered(tree, root, selected)
       IN {r.subgraph, r.rootNodeId, r.selectedNodeId} \subseteq inTree

\* after an undo the stored selectedNodeId names a node the current tree
\* does not have
C28_Witness ==
  /\ last.op = "handleUndo"
  /\ selectedNodeId # null
  /\ ~HasNode(tree, selectedNodeId)


\* ------------------------------------------------------ BugStatusCache
MaxTicks == 3
MaxPending == 2

\* constructor(ttlMinutes: number = 1)
ttlMinutes == 1

\* this.ttl = ttlMinutes * 60 * 1000
ttl == ttlMinutes * 60 * 1000

\* How far Date.now() moves between two steps: a millisecond, or the ttl.
Ticks == {1, ttl}

\* get returns null: found is FALSE, and data is not read
Miss(cache) == [cache |-> cache, found |-> FALSE, data |-> [success |-> FALSE]]

\* (mutant) an entry is served whatever its age
get_NoExpiry(cache, now, bugNumber) ==
  LET entry == cache[bugNumber]
  IN IF ~entry.held THEN Miss(cache)
     ELSE [cache |-> cache, found |-> TRUE, data |-> [success |-> entry.success]]

\* BugStatusCache.get: the cache it leaves and what it returns, the data of
\* the entry or null (found is FALSE); an entry older than the ttl is deleted.
get(cache, now, bugNumber) ==
  LET entry == cache[bugNumber]
  IN IF ~entry.held THEN Miss(cache)
     ELSE IF now - entry.timestamp > ttl
          THEN Miss([cache EXCEPT ![bugNumber] = NoEntry])
          ELSE [cache |-> cache, found |-> TRUE, data |-> [success |-> entry.success]]

\* BugStatusCache.set
set(cache, now, bugNumber, data) ==
  [cache EXCEPT ![bugNumber] =
     [held |-> TRUE, success |-> data.success, timestamp |-> now]]

\* BugStatusCache.clear
clear(cache) == [b \in DOMAIN cache |-> NoEntry]

BugsUnchanged ==
  UNCHANGED <<treeHistory, heap, treeIndex, lastUpdateKind, rootNodeId,
              selectedNodeId, error, last, afterUndo, result, app>>

\* What bugs.last records of a step.  expired: get deleted an entry.
BugStep(op, bugNumber, fetched, success) ==
  [op |-> op, bug |-> bugNumber, fetched |-> fetched, success |-> success,
   expired |-> FALSE]

\* Date.now() moves on
tick(d) ==
  /\ bugs.ticks < MaxTicks
  /\ bugs' = [bugs EXCEPT !.now = @ + d, !.ticks = @ + 1,
                          !.last = BugStep("tick", 0, FALSE, FALSE)]
  /\ BugsUnchanged

\* getCachedBugStatus up to its await: the cached result is returned, or
\* getBugStatus is called.
getCachedBugStatus(bugNumber) ==
  LET cached == get(bugs.cache, bugs.now, bugNumber)
  IN /\ IF cached.found
        THEN bugs' = [bugs EXCEPT !.cache = cached.cache,
                        !.last = BugStep("getCachedBugStatus", bugNumber, FALSE,
                                         cached.data.success)]
        ELSE /\ Len(bugs.calls) < MaxPending
             /\ bugs' = [bugs EXCEPT !.cache = cached.cache,
                           !.calls = Append(@, bugNumber),
                           !.last = [BugStep("getCachedBugStatus", bugNumber,
                                             TRUE, FALSE)
                                       EXCEPT !.expired = cached.cache # bugs.cache]]
     /\ BugsUnchanged

\* getBugStatus resolves (it never rejects) and getCachedBugStatus goes on
\* after its await: only a successful result is stored.
getBugStatusDone(i, success) ==
  /\ i \in DOMAIN bugs.calls
  /\ LET bugNumber == bugs.calls[i]
         result_ == [success |-> success]
     IN bugs' = [bugs EXCEPT
                   !.cache = IF result_.success
                             THEN set(@, bugs.now, bugNumber, result_) ELSE @,
                   !.calls = RemoveAt(@, i),
                   !.last = BugStep("getBugStatus", bugNumber, TRUE, success)]
  /\ BugsUnchanged

clearBugStatusCache ==
  /\ \E b \in BugNumbers : bugs.cache[b].held
  /\ bugs' = [bugs EXCEPT !.cache = clear(@),
                          !.last = BugStep("clearBugStatusCache", 0, FALSE, FALSE)]
  /\ BugsUnchanged

InitBugs ==
  /\ ViewerMounted([hist |-> <<<<>>>>, heap |-> <<>>])
  /\ app = AppStart
  /\ bugs = BugsStart

NextBugs ==
  \/ \E d \in Ticks : tick(d)
  \/ \E bugNumber \in BugNumbers : getCachedBugStatus(bugNumber)
  \/ \E i \in 1..MaxPending : \E success \in BOOLEAN : getBugStatusDone(i, success)
  \/ clearBugStatusCache

SpecBugs == InitBugs /\ [][NextBugs]_vars

\* The cache holds for bugNumber a successful result stored no more than ttl
\* milliseconds ago.
FreshSuccess(bugNumber) ==
  /\ bugs.cache[bugNumber].held
  /\ bugs.cache[bugNumber].success
  /\ bugs.now - bugs.cache[bugNumber].timestamp <= ttl

\* C30: getCachedBugStatus(bugNumber) answers without fetching exactly when
\* the cache holds for bugNumber a successful result stored no more than ttl
\* milliseconds ago; a failed result is never stored, so the call after a
\* failure with nothing fresh in the cache fetches again; an entry older than
\* ttl is removed by the call that finds it, and that call fetches.
C30_CachedOnlyWhenFresh ==
  [][/\ \A b \in BugNumbers : bugs'.cache[b].held => bugs'.cache[b].success
     /\ bugs'.last.op = "getCachedBugStatus" =>
          LET b == bugs'.last.bug
          IN /\ ~bugs'.last.fetched <=> FreshSuccess(b)
             /\ ~bugs'.last.fetched => bugs'.last.success
             /\ (bugs.cache[b].held /\ ~FreshSuccess(b)) =>
                  /\ ~bugs'.cache[b].held
                  /\ bugs'.calls = Append(bugs.calls, b)
     /\ (bugs'.last.op = "getBugStatus" /\ ~bugs'.last.success) =>
          bugs'.cache = bugs.cache]_vars

\* a call has just found an entry older than ttl, removed it and fetched,
\* while the cache holds an entry for the other bug that is not older than ttl
C30_Witness ==
  /\ bugs.last.op = "getCachedBugStatus"
  /\ bugs.last.fetched
  /\ bugs.last.expired
  /\ ~bugs.cache[bugs.last.bug].held
  /\ \E b \in BugNumbers : bugs.cache[b].held /\ bugs.now - bugs.cache[b].timestamp <= ttl

====
